---- MODULE Spec2Model ----
(***************************************************************************)
(* Sales-Bot: the email campaign engine (Scheduler.py) and the response    *)
(* endpoint (app.py), which share two JSON files and a timer.              *)
(*                                                                         *)
(* Every handler is cut at its accesses to what is shared: each load of a  *)
(* file, each save of a file, the hand-over of a reminder to SMTP and each *)
(* add_job is a step of its own, and another handler (a reminder on a      *)
(* scheduler thread, the campaign, a click in the web process) may run in  *)
(* between.  A save is two steps, as save_json is: open(filename, 'w')     *)
(* empties the file, json.dump and the close write it.                     *)
(*                                                                         *)
(* Abstractions: a timestamp field is kept as "has been set" (no claim     *)
(* compares two instants); a contact's name, email and company are left    *)
(* out (they are only copied), so the size in bytes of a dumped text is    *)
(* not known and a text laid over another may be the longer or the shorter *)
(* one; the dumped text reaches the file at once, at the close (the lists  *)
(* are far smaller than the write buffer).  The initial email leaves no    *)
(* trace in the state, so its hand-over to SMTP and the load of the log    *)
(* that follows are one step, and an initial email that went out before    *)
(* the SMTP session failed is a failed send like any other.                *)
(***************************************************************************)
EXTENDS Integers, Sequences, FiniteSets, TLC

\* ------------------------------------------------------------ constants
MAX_REMINDERS == 3

\* 'reminder_count' not in contact
NoCount == -1

\* ---------------------------------------------------------------- bounds
NumContacts  == 2
MaxCampaigns == 2
MaxClicks    == 2
MaxWorkers   == 2
\* handler runs started in all: campaign runs, timer fires and clicks
MaxOps       == 4
\* handlers started in all when every send succeeds and nobody clicks
MaxOpsSent   == 5
\* handlers running at the same time
MaxRunning   == 2

Ids       == 1..NumContacts
\* an id no contact of the store carries
UnknownId == NumContacts + 1
Ordinals  == 1..(MAX_REMINDERS + 1)
JobKeys   == Ids \X Ordinals

VARIABLES
    contactsFile,   \* contacts.json: [kind, data, ascii]
    trackingFile,   \* email_tracking.json: [kind, data, ascii]
    jobs,           \* reminder_scheduler: pending one-shot jobs, a bag over JobKeys
    camp,           \* the running send_emails_to_all call and its locals
    workers,        \* the running send_reminder_email calls and their locals
    click,          \* the running response request and its locals
    outbox,         \* reminder emails handed to SMTP so far, per contact
    raised,         \* exceptions that left a handler
    dumped,         \* the list last written whole into each of the two files
    campaigns,      \* campaign runs started
    fires,          \* timer jobs fired
    clicks          \* response requests started

vars == <<contactsFile, trackingFile, jobs, camp, workers, click, outbox,
          raised, dumped, campaigns, fires, clicks>>

\* handler runs started so far
Ops == campaigns + fires + clicks

\* ------------------------------------------------------------ the store
\* a file is not there, has no content, holds a JSON list, holds text that
\* is not JSON, or holds bytes that are not UTF-8
FileKinds == {"missing", "empty", "corrupt", "undecodable", "ok"}

\* ascii: every byte of the file is known to be ASCII
File(kind, data, ascii) == [kind |-> kind, data |-> data, ascii |-> ascii]

\* Scheduler.load_json: open(..., encoding='utf-8') and json.load; only
\* FileNotFoundError is caught and gives [].  Bytes that are not UTF-8 raise
\* UnicodeDecodeError, an empty or unparsable text raises JSONDecodeError.
SchedLoadJson(f) ==
    IF f.kind = "ok" THEN [error |-> "none", data |-> f.data]
    ELSE IF f.kind = "missing" THEN [error |-> "none", data |-> <<>>]
    ELSE IF f.kind = "undecodable" THEN [error |-> "UnicodeDecodeError", data |-> <<>>]
    ELSE [error |-> "JSONDecodeError", data |-> <<>>]

\* app.load_json: open(..., encoding='utf-8') and f.read(); empty content,
\* FileNotFoundError and JSONDecodeError give [], a UnicodeDecodeError of
\* the read is not caught
AppLoadJson(f) ==
    IF f.kind = "ok" THEN [error |-> "none", data |-> f.data]
    ELSE IF f.kind = "undecodable" THEN [error |-> "UnicodeDecodeError", data |-> <<>>]
    ELSE [error |-> "none", data |-> <<>>]

\* save_json, open(filename, 'w'): the file is there and has no content
Truncated == File("empty", <<>>, TRUE)

\* the two save_json: Scheduler's writes UTF-8 (ensure_ascii=False), app's
\* writes escapes (json.dump's default), so ASCII only
Encoders == {"sched", "app"}

\* what a dump leaves in the file
DumpKinds == {"whole", "corrupt", "undecodable"}

\* what is left of an older text behind a shorter one laid over it: text
\* that is not JSON; it is not UTF-8 either when the older text holds a
\* character of several bytes and the new text ends inside it
Tails(f) == IF f.ascii THEN {"corrupt"} ELSE {"corrupt", "undecodable"}

\* save_json, json.dump and the close: the text is written from the start
\* of the file through the handler's own descriptor.  Into a file without
\* content it is the content.  When another handler's text has reached the
\* file since this one opened it, the text is laid over that one and is
\* followed by the rest of it when that one is longer in bytes.  The text
\* of the empty list, "[]", is the shortest there is; of two other texts
\* either may be the longer one (names, escapes and timestamps differ in
\* width).
DumpOutcomes(f, data) ==
    IF f.kind = "empty" THEN {"whole"}
    ELSE IF f.kind = "ok" /\ f.data = <<>> THEN {"whole"}
    ELSE IF data = <<>> THEN Tails(f)
    ELSE {"whole"} \cup Tails(f)

Dump(f, data, enc, out) ==
    IF out = "whole" THEN File("ok", data, enc = "app" \/ data = <<>>)
    ELSE IF out = "corrupt"
         THEN File("corrupt", <<>>, f.ascii /\ (enc = "app" \/ data = <<>>))
    ELSE File("undecodable", <<>>, FALSE)

\* what a reader that survives every kind of file sees in it
Content(f) == IF f.kind = "ok" THEN f.data ELSE <<>>

\* ------------------------------------------------------------- contacts
Statuses == {"pending", "interested", "not_interested"}

Contact(id, status, rc) ==
    [id |-> id, status |-> status, reminder_count |-> rc,
     sent_at |-> FALSE, last_reminder_sent |-> "absent", updated_at |-> FALSE]

\* next((c for c in contacts if c['id'] == contact_id), None): the index of
\* the first match, 0 for None
FindIdx(contacts, id) ==
    IF \E i \in 1..Len(contacts) : contacts[i].id = id
    THEN CHOOSE i \in 1..Len(contacts) :
            /\ contacts[i].id = id
            /\ \A j \in 1..(i - 1) : contacts[j].id # id
    ELSE 0

\* contact.get('reminder_count', 0)
GetCount(c) == IF c.reminder_count = NoCount THEN 0 ELSE c.reminder_count

\* [c for c in contacts if c.get('status') == 'pending'], as indices into
\* contacts (the list holds the same dict objects)
RECURSIVE PendingFrom(_, _)
PendingFrom(contacts, i) ==
    IF i > Len(contacts) THEN <<>>
    ELSE IF contacts[i].status = "pending"
         THEN <<i>> \o PendingFrom(contacts, i + 1)
         ELSE PendingFrom(contacts, i + 1)

PendingContacts(contacts) == PendingFrom(contacts, 1)

\* ------------------------------------------------------------- tracking
Event(id, action, n) == [contact_id |-> id, action |-> action, n |-> n]

EmailSentEvent(id)   == Event(id, "email_sent", 0)
\* f"reminder_{new_reminder_count}_sent"
ReminderEvent(id, n) == Event(id, "reminder_sent", n)
ResponseEvent(id, a) == Event(id, a, 0)

\* ------------------------------------------------------------ the timer
NoJobs == [k \in JobKeys |-> 0]

JobAdd(js, k)    == [js EXCEPT ![k] = @ + 1]
JobRemove(js, k) == [js EXCEPT ![k] = @ - 1]

\* reminder_scheduler.add_job(..., id=job_id): whether the job is taken.
\* The timer is a collaborator outside the repository: a job id that is
\* still pending is either taken as well (the documented contract of the
\* timer) or refused with ConflictingIdError (APScheduler's job store).
AddJobOutcomes(js, k) == IF js[k] > 0 THEN {TRUE, FALSE} ELSE {TRUE}


\* ---------------------------------------------------------------- locals
IdleCamp ==
    [pc |-> "idle", contacts |-> <<>>, pending |-> <<>>, i |-> 0,
     tracking |-> <<>>]

IdleWorker ==
    [pc |-> "idle", id |-> 0, contacts |-> <<>>, tracking |-> <<>>, n |-> 0]

IdleClick ==
    [pc |-> "idle", id |-> 0, status |-> "pending", contacts |-> <<>>,
     tracking |-> <<>>]

NoMail == [c \in Ids |-> 0]

\* ------------------------------------------------------------------ Init
\* reminder counts the seed data may carry: none, and up to the cap
SeedCounts == {NoCount, 0, MAX_REMINDERS - 1, MAX_REMINDERS}

\* a store of new contacts
FreshStore == [i \in Ids |-> Contact(i, "pending", NoCount)]

\* contacts.json as seeded: the new contacts, or the first contact pending
\* with a count from earlier reminders and the others having responded
SeedStores ==
    {FreshStore} \cup
    { [i \in Ids |-> IF i = 1 THEN Contact(i, "pending", rc)
                              ELSE Contact(i, "interested", NoCount)] :
        rc \in SeedCounts \ {NoCount} }

\* a seeded contacts file, written by hand: any characters
SeedFile(s) == File("ok", s, FALSE)

\* the log before the first event
EmptyLog == File("ok", <<>>, TRUE)

BadFiles == {File(k, <<>>, k \in {"missing", "empty"}) : k \in FileKinds \ {"ok"}}

\* the two files before the first run: a seeded store with an empty log, or
\* one of the two files missing, empty, unparsable or not UTF-8
InitFiles ==
    /\ \/ /\ contactsFile \in {SeedFile(s) : s \in SeedStores}
          /\ trackingFile = EmptyLog
       \/ /\ contactsFile \in BadFiles
          /\ trackingFile = EmptyLog
       \/ /\ contactsFile = SeedFile(FreshStore)
          /\ trackingFile \in BadFiles

Init ==
    /\ InitFiles
    /\ jobs = NoJobs
    /\ camp = IdleCamp
    /\ workers = [w \in 1..MaxWorkers |-> IdleWorker]
    /\ click = IdleClick
    /\ outbox = NoMail
    /\ raised = {}
    /\ dumped = [contacts |-> Content(contactsFile), tracking |-> Content(trackingFile)]
    /\ campaigns = 0
    /\ fires = 0
    /\ clicks = 0

\* the handlers that are running
Running ==
    Cardinality({w \in 1..MaxWorkers : workers[w].pc # "idle"})
      + (IF camp.pc = "idle" THEN 0 ELSE 1)
      + (IF click.pc = "idle" THEN 0 ELSE 1)

\* ---------------------------------------------- send_emails_to_all (campaign)
\* a campaign that starts every contact's count afresh
MarkSentResetsCount(c) ==
    [c EXCEPT !.sent_at = TRUE,
              !.updated_at = TRUE,
              !.reminder_count = 0,
              !.last_reminder_sent = IF @ = "absent" THEN "null" ELSE @]

\* lines 243-249: the contact after a successful initial send
MarkSent(c) ==
    [c EXCEPT !.sent_at = TRUE,
              !.updated_at = TRUE,
              !.reminder_count = IF @ = NoCount THEN 0 ELSE @,
              !.last_reminder_sent = IF @ = "absent" THEN "null" ELSE @]

\* the for loop moves to the next pending contact, or to the save after it
NextContact(cp) ==
    IF cp.i + 1 > Len(cp.pending)
    THEN [cp EXCEPT !.pc = "save", !.i = 0, !.tracking = <<>>]
    ELSE [cp EXCEPT !.pc = "send", !.i = @ + 1, !.tracking = <<>>]

\* a campaign that marks the contact sent although the send failed
AfterFailedSendMarks(cp) ==
    NextContact([cp EXCEPT !.contacts[cp.pending[cp.i]] = MarkSent(@)])

\* lines 266-267: send_email gave False; the contact is left as it is
AfterFailedSend(cp) == NextContact(cp)

\* lines 224-229: load the contacts, pick the pending ones, return when none;
\* an error of the load leaves send_emails_to_all
CampaignLoad(runs, par, ops) ==
    /\ camp.pc = "idle"
    /\ campaigns < runs
    /\ Ops < ops
    /\ Running < par
    /\ campaigns' = campaigns + 1
    /\ LET ld   == SchedLoadJson(contactsFile)
           pend == PendingContacts(ld.data)
       IN  IF ld.error # "none"
           THEN /\ raised' = raised \cup {<<"send_emails_to_all", ld.error>>}
                /\ camp' = camp
           ELSE /\ raised' = raised
                /\ camp' = IF pend = <<>> THEN camp
                           ELSE [IdleCamp EXCEPT !.pc = "send", !.contacts = ld.data,
                                                 !.pending = pend, !.i = 1]
    /\ UNCHANGED <<contactsFile, trackingFile, jobs, workers, click, outbox,
                   dumped, fires, clicks>>

\* send_email, lines 59-97: render, hand the message to SMTP (ok: whether
\* the session gets to its end without an exception, lines 91-94), then
\* load the tracking log; any exception is caught and
\* gives False (lines 110-112), and the loop goes on (line 267; its two
\* counters are only printed and are left out)
CampaignSend(ok) ==
    /\ camp.pc = "send"
    /\ LET tl == SchedLoadJson(trackingFile)
       IN  camp' = IF ok /\ tl.error = "none"
                   THEN [camp EXCEPT !.pc = "track", !.tracking = tl.data]
                   ELSE AfterFailedSend(camp)
    /\ UNCHANGED <<contactsFile, trackingFile, jobs, workers, click, outbox,
                   raised, dumped, campaigns, fires, clicks>>

\* send_email, lines 98-105 and save_json line 47: the email_sent event is
\* appended in memory and the log is opened for writing
CampaignTrack ==
    /\ camp.pc = "track"
    /\ trackingFile' = Truncated
    /\ camp' = [camp EXCEPT !.pc = "trackw"]
    /\ UNCHANGED <<contactsFile, jobs, workers, click, outbox, raised, dumped,
                   campaigns, fires, clicks>>

\* save_json line 48 (from line 105): the log is written; send_email
\* returns True
CampaignTrackDump(out) ==
    /\ camp.pc = "trackw"
    /\ LET c   == camp.contacts[camp.pending[camp.i]]
           log == Append(camp.tracking, EmailSentEvent(c.id))
       IN  /\ out \in DumpOutcomes(trackingFile, log)
           /\ trackingFile' = Dump(trackingFile, log, "sched", out)
           /\ dumped' = IF out = "whole" THEN [dumped EXCEPT !.tracking = log]
                        ELSE dumped
    /\ camp' = [camp EXCEPT !.pc = "mark", !.tracking = <<>>]
    /\ UNCHANGED <<contactsFile, jobs, workers, click, outbox, raised,
                   campaigns, fires, clicks>>

\* the loop body, lines 240-263: the contact is updated in memory and the
\* first reminder is scheduled.  A refused add_job leaves
\* send_emails_to_all as an exception: nothing after it runs, the contacts
\* are not saved.
CampaignSchedule(accepted) ==
    /\ camp.pc = "mark"
    /\ LET idx == camp.pending[camp.i]
           c   == camp.contacts[idx]
           job == <<c.id, 1>>
       IN  /\ accepted \in AddJobOutcomes(jobs, job)
           /\ IF accepted
              THEN /\ jobs' = JobAdd(jobs, job)
                   /\ camp' = NextContact([camp EXCEPT !.contacts[idx] = MarkSent(c)])
                   /\ raised' = raised
              ELSE /\ jobs' = jobs
                   /\ camp' = IdleCamp
                   /\ raised' = raised \cup {<<"send_emails_to_all", "ConflictingIdError">>}
    /\ UNCHANGED <<contactsFile, trackingFile, workers, click, outbox, dumped,
                   campaigns, fires, clicks>>

\* line 273 and save_json line 47: the contacts file is opened for writing
CampaignSave ==
    /\ camp.pc = "save"
    /\ contactsFile' = Truncated
    /\ camp' = [camp EXCEPT !.pc = "savew"]
    /\ UNCHANGED <<trackingFile, jobs, workers, click, outbox, raised, dumped,
                   campaigns, fires, clicks>>

\* save_json line 48: the contacts loaded at the start, as updated in
\* memory, are written
CampaignSaveDump(out) ==
    /\ camp.pc = "savew"
    /\ out \in DumpOutcomes(contactsFile, camp.contacts)
    /\ contactsFile' = Dump(contactsFile, camp.contacts, "sched", out)
    /\ dumped' = IF out = "whole" THEN [dumped EXCEPT !.contacts = camp.contacts]
                 ELSE dumped
    /\ camp' = IdleCamp
    /\ UNCHANGED <<trackingFile, jobs, workers, click, outbox, raised,
                   campaigns, fires, clicks>>

\* ------------------------------------------ send_reminder_email (a fire)
\* a guard that looks only for the contact, not at its status
NotPendingOnlyMissing(contacts, id) == FindIdx(contacts, id) = 0

\* line 123: not contact or contact.get('status') != 'pending'
NotPending(contacts, id) ==
    \/ FindIdx(contacts, id) = 0
    \/ contacts[FindIdx(contacts, id)].status # "pending"

\* a cap test that lets one more reminder through
AtCapOffByOne(c) == GetCount(c) > MAX_REMINDERS

\* line 129: reminder_count >= MAX_REMINDERS
AtCap(c) == GetCount(c) >= MAX_REMINDERS

\* lines 131-132: the contact marked by the cap branch
MarkCapped(c) == [c EXCEPT !.status = "not_interested", !.updated_at = TRUE]

\* lines 178-182: the contact after a reminder went out
MarkReminded(c) ==
    [c EXCEPT !.reminder_count = GetCount(c) + 1,
              !.last_reminder_sent = "set",
              !.updated_at = TRUE]

\* line 199: new_reminder_count < MAX_REMINDERS
ScheduleNext(n) == n < MAX_REMINDERS

\* the scheduler's thread pool runs the callback on a free thread
FreeWorker ==
    CHOOSE w \in 1..MaxWorkers :
        /\ workers[w].pc = "idle"
        /\ \A v \in 1..(w - 1) : workers[v].pc # "idle"

\* the callback send_reminder_email(id) is handed to a thread of the pool
Submit(id) ==
    /\ \E w \in 1..MaxWorkers : workers[w].pc = "idle"
    /\ workers' = [workers EXCEPT ![FreeWorker] =
                     [IdleWorker EXCEPT !.pc = "start", !.id = id]]

\* the timer fires a pending job: the job is discarded and its callback is
\* handed to the pool
TimerFire(k, par, ops) ==
    /\ jobs[k] > 0
    /\ Ops < ops
    /\ Running < par
    /\ jobs' = JobRemove(jobs, k)
    /\ fires' = fires + 1
    /\ Submit(k[1])
    /\ UNCHANGED <<contactsFile, trackingFile, camp, click, outbox, raised,
                   dumped, campaigns, clicks>>

\* the callback run for an id that no contact carries (a job whose contact
\* was taken out of the seed data)
StrayFire ==
    /\ Ops < MaxOps
    /\ Running < MaxRunning
    /\ fires' = fires + 1
    /\ Submit(UnknownId)
    /\ UNCHANGED <<contactsFile, trackingFile, jobs, camp, click, outbox, raised,
                   dumped, campaigns, clicks>>

\* lines 120-135: load the contacts and look the contact up; when it is
\* missing or not pending, print and return; at the cap mark it
\* not_interested in memory, to be saved; otherwise go on to send.  An
\* error of the load leaves the callback.
ReminderStart(w) ==
    /\ workers[w].pc = "start"
    /\ LET id  == workers[w].id
           ld  == SchedLoadJson(contactsFile)
           idx == FindIdx(ld.data, id)
       IN  IF ld.error # "none"
           THEN /\ raised' = raised \cup {<<"send_reminder_email", ld.error>>}
                /\ workers' = [workers EXCEPT ![w] = IdleWorker]
           ELSE /\ raised' = raised
                /\ workers' =
                     IF NotPending(ld.data, id)
                     THEN [workers EXCEPT ![w].pc = "skip"]
                     ELSE IF AtCap(ld.data[idx])
                     THEN [workers EXCEPT ![w].pc = "cap",
                             ![w].contacts = [ld.data EXCEPT ![idx] = MarkCapped(@)]]
                     ELSE [workers EXCEPT ![w].pc = "send",
                             ![w].contacts = ld.data]
    /\ UNCHANGED <<contactsFile, trackingFile, jobs, camp, click, outbox, dumped,
                   campaigns, fires, clicks>>

\* lines 124-125: the callback that found nothing to do returns
ReminderSkip(w) ==
    /\ workers[w].pc = "skip"
    /\ workers' = [workers EXCEPT ![w] = IdleWorker]
    /\ UNCHANGED <<contactsFile, trackingFile, jobs, camp, click, outbox, raised,
                   dumped, campaigns, fires, clicks>>

\* line 133 and save_json line 47: the cap branch opens the contacts file
\* for writing
ReminderCapSave(w) ==
    /\ workers[w].pc = "cap"
    /\ contactsFile' = Truncated
    /\ workers' = [workers EXCEPT ![w].pc = "capw"]
    /\ UNCHANGED <<trackingFile, jobs, camp, click, outbox, raised, dumped,
                   campaigns, fires, clicks>>

\* save_json line 48, lines 134-135: the cap branch writes the contacts it
\* loaded and returns
ReminderCapDump(w, out) ==
    /\ workers[w].pc = "capw"
    /\ out \in DumpOutcomes(contactsFile, workers[w].contacts)
    /\ contactsFile' = Dump(contactsFile, workers[w].contacts, "sched", out)
    /\ dumped' = IF out = "whole" THEN [dumped EXCEPT !.contacts = workers[w].contacts]
                 ELSE dumped
    /\ workers' = [workers EXCEPT ![w] = IdleWorker]
    /\ UNCHANGED <<trackingFile, jobs, camp, click, outbox, raised,
                   campaigns, fires, clicks>>

\* lines 138-175, the SMTP session of a reminder: an exception before
\* send_message has returned (template, connect, starttls, login, the
\* message refused): nothing went out; send_message returns and the with
\* block is left in order: the reminder went out; send_message returns and
\* leaving the with block raises (the server's reply to QUIT is not 221):
\* the reminder went out and the callback takes the exception
SendOutcomes == {"failed", "sent", "sent_raised"}

\* lines 138-182: render and hand the reminder to SMTP, then update the
\* contact in memory; an exception ends the callback at line 215 with
\* nothing saved
ReminderSend(w, res) ==
    /\ workers[w].pc = "send"
    /\ LET me  == workers[w]
           idx == FindIdx(me.contacts, me.id)
       IN  /\ outbox' = IF res = "failed" THEN outbox
                        ELSE [outbox EXCEPT ![me.id] = @ + 1]
           /\ workers' =
                IF res = "sent"
                THEN [workers EXCEPT ![w] =
                        [me EXCEPT !.pc = "load",
                                   !.n = GetCount(me.contacts[idx]) + 1,
                                   !.contacts[idx] = MarkReminded(@)]]
                ELSE [workers EXCEPT ![w] = IdleWorker]
    /\ UNCHANGED <<contactsFile, trackingFile, jobs, camp, click, raised, dumped,
                   campaigns, fires, clicks>>

\* line 185: load the tracking log; an error of the load is caught at line
\* 215 and ends the callback with nothing saved
ReminderTrackLoad(w) ==
    /\ workers[w].pc = "load"
    /\ LET tl == SchedLoadJson(trackingFile)
       IN  workers' = IF tl.error = "none"
                      THEN [workers EXCEPT ![w].pc = "track", ![w].tracking = tl.data]
                      ELSE [workers EXCEPT ![w] = IdleWorker]
    /\ UNCHANGED <<contactsFile, trackingFile, jobs, camp, click, outbox, raised,
                   dumped, campaigns, fires, clicks>>

\* lines 186-193 and save_json line 47: the reminder event is appended in
\* memory and the log is opened for writing
ReminderTrack(w) ==
    /\ workers[w].pc = "track"
    /\ trackingFile' = Truncated
    /\ workers' = [workers EXCEPT ![w].pc = "trackw"]
    /\ UNCHANGED <<contactsFile, jobs, camp, click, outbox, raised, dumped,
                   campaigns, fires, clicks>>

\* save_json line 48 (from line 193): the log is written
ReminderTrackDump(w, out) ==
    /\ workers[w].pc = "trackw"
    /\ LET me  == workers[w]
           log == Append(me.tracking, ReminderEvent(me.id, me.n))
       IN  /\ out \in DumpOutcomes(trackingFile, log)
           /\ trackingFile' = Dump(trackingFile, log, "sched", out)
           /\ dumped' = IF out = "whole" THEN [dumped EXCEPT !.tracking = log]
                        ELSE dumped
    /\ workers' = [workers EXCEPT ![w].pc = "save", ![w].tracking = <<>>]
    /\ UNCHANGED <<contactsFile, jobs, camp, click, outbox, raised,
                   campaigns, fires, clicks>>

\* line 194 and save_json line 47: the contacts file is opened for writing
ReminderSave(w) ==
    /\ workers[w].pc = "save"
    /\ contactsFile' = Truncated
    /\ workers' = [workers EXCEPT ![w].pc = "savew"]
    /\ UNCHANGED <<trackingFile, jobs, camp, click, outbox, raised, dumped,
                   campaigns, fires, clicks>>

\* save_json line 48 (from line 194) and lines 196-199: the contacts loaded
\* at the start are written; the callback goes on to schedule the next
\* reminder while the new count is under the cap, and ends otherwise
ReminderSaveDump(w, out) ==
    /\ workers[w].pc = "savew"
    /\ LET me == workers[w]
       IN  /\ out \in DumpOutcomes(contactsFile, me.contacts)
           /\ contactsFile' = Dump(contactsFile, me.contacts, "sched", out)
           /\ dumped' = IF out = "whole" THEN [dumped EXCEPT !.contacts = me.contacts]
                        ELSE dumped
           /\ workers' = IF ScheduleNext(me.n)
                         THEN [workers EXCEPT ![w].pc = "sched", ![w].contacts = <<>>]
                         ELSE [workers EXCEPT ![w] = IdleWorker]
    /\ UNCHANGED <<trackingFile, jobs, camp, click, outbox, raised,
                   campaigns, fires, clicks>>

\* lines 200-213: the next reminder is scheduled; a refused add_job is
\* caught at line 215
ReminderSchedule(w, accepted) ==
    /\ workers[w].pc = "sched"
    /\ LET job == <<workers[w].id, workers[w].n + 1>>
       IN  /\ accepted \in AddJobOutcomes(jobs, job)
           /\ jobs' = IF accepted THEN JobAdd(jobs, job) ELSE jobs
    /\ workers' = [workers EXCEPT ![w] = IdleWorker]
    /\ UNCHANGED <<contactsFile, trackingFile, camp, click, outbox, raised,
                   dumped, campaigns, fires, clicks>>

\* ------------------------------------------ app.py: the response endpoint
\* lines 44-48: the first contact with the id gets the status
UpdateStatus(contacts, id, status) ==
    IF FindIdx(contacts, id) = 0 THEN contacts
    ELSE [contacts EXCEPT ![FindIdx(contacts, id)] =
            [@ EXCEPT !.status = status, !.updated_at = TRUE]]

\* GET /interested/{id}, /not-interested/{id}: update_contact_status loads
\* the contacts (line 43); an error of the load leaves the endpoint
ClickLoad(id, status) ==
    /\ click.pc = "idle"
    /\ clicks < MaxClicks
    /\ Ops < MaxOps
    /\ Running < MaxRunning
    /\ clicks' = clicks + 1
    /\ LET ld == AppLoadJson(contactsFile)
       IN  IF ld.error # "none"
           THEN /\ raised' = raised \cup {<<"update_contact_status", ld.error>>}
                /\ click' = click
           ELSE /\ raised' = raised
                /\ click' = [IdleClick EXCEPT !.pc = "save", !.id = id,
                                              !.status = status, !.contacts = ld.data]
    /\ UNCHANGED <<contactsFile, trackingFile, jobs, camp, workers, outbox,
                   dumped, campaigns, fires>>

\* lines 44-49 and save_json line 37: set the status in memory, found or
\* not, and open the contacts file for writing
ClickSave ==
    /\ click.pc = "save"
    /\ contactsFile' = Truncated
    /\ click' = [click EXCEPT !.pc = "savew",
                   !.contacts = UpdateStatus(click.contacts, click.id, click.status)]
    /\ UNCHANGED <<trackingFile, jobs, camp, workers, outbox, raised, dumped,
                   campaigns, fires, clicks>>

\* save_json line 38: the contacts are written
ClickSaveDump(out) ==
    /\ click.pc = "savew"
    /\ out \in DumpOutcomes(contactsFile, click.contacts)
    /\ contactsFile' = Dump(contactsFile, click.contacts, "app", out)
    /\ dumped' = IF out = "whole" THEN [dumped EXCEPT !.contacts = click.contacts]
                 ELSE dumped
    /\ click' = [click EXCEPT !.pc = "track", !.contacts = <<>>]
    /\ UNCHANGED <<trackingFile, jobs, camp, workers, outbox, raised,
                   campaigns, fires, clicks>>

\* track_response, line 54: load the log; an error of the load leaves the
\* endpoint
ClickTrackLoad ==
    /\ click.pc = "track"
    /\ LET tl == AppLoadJson(trackingFile)
       IN  IF tl.error # "none"
           THEN /\ raised' = raised \cup {<<"track_response", tl.error>>}
                /\ click' = IdleClick
           ELSE /\ raised' = raised
                /\ click' = [click EXCEPT !.pc = "find", !.tracking = tl.data]
    /\ UNCHANGED <<contactsFile, trackingFile, jobs, camp, workers, outbox,
                   dumped, campaigns, fires, clicks>>

\* track_response, lines 57-60: load the contacts again and look the
\* contact up; nothing more when it is not there
ClickTrackFind ==
    /\ click.pc = "find"
    /\ LET ld == AppLoadJson(contactsFile)
       IN  IF ld.error # "none"
           THEN /\ raised' = raised \cup {<<"track_response", ld.error>>}
                /\ click' = IdleClick
           ELSE /\ raised' = raised
                /\ click' = IF FindIdx(ld.data, click.id) = 0 THEN IdleClick
                            ELSE [click EXCEPT !.pc = "log"]
    /\ UNCHANGED <<contactsFile, trackingFile, jobs, camp, workers, outbox,
                   dumped, campaigns, fires, clicks>>

\* lines 61-69 and save_json line 37: the response event is appended in
\* memory and the log is opened for writing
ClickTrackSave ==
    /\ click.pc = "log"
    /\ trackingFile' = Truncated
    /\ click' = [click EXCEPT !.pc = "logw"]
    /\ UNCHANGED <<contactsFile, jobs, camp, workers, outbox, raised, dumped,
                   campaigns, fires, clicks>>

\* save_json line 38: the log is written
ClickTrackDump(out) ==
    /\ click.pc = "logw"
    /\ LET log == Append(click.tracking, ResponseEvent(click.id, click.status))
       IN  /\ out \in DumpOutcomes(trackingFile, log)
           /\ trackingFile' = Dump(trackingFile, log, "app", out)
           /\ dumped' = IF out = "whole" THEN [dumped EXCEPT !.tracking = log]
                        ELSE dumped
    /\ click' = IdleClick
    /\ UNCHANGED <<contactsFile, jobs, camp, workers, outbox, raised,
                   campaigns, fires, clicks>>

\* ------------------------------------------------------ the specifications
Next ==
    \/ CampaignLoad(MaxCampaigns, MaxRunning, MaxOps)
    \/ \E ok \in BOOLEAN : CampaignSend(ok)
    \/ CampaignTrack
    \/ \E out \in DumpKinds : CampaignTrackDump(out)
    \/ \E accepted \in BOOLEAN : CampaignSchedule(accepted)
    \/ CampaignSave
    \/ \E out \in DumpKinds : CampaignSaveDump(out)
    \/ \E k \in JobKeys : TimerFire(k, MaxRunning, MaxOps)
    \/ StrayFire
    \/ \E w \in 1..MaxWorkers : ReminderStart(w)
    \/ \E w \in 1..MaxWorkers : ReminderSkip(w)
    \/ \E w \in 1..MaxWorkers : ReminderCapSave(w)
    \/ \E w \in 1..MaxWorkers, out \in DumpKinds : ReminderCapDump(w, out)
    \/ \E w \in 1..MaxWorkers, res \in SendOutcomes : ReminderSend(w, res)
    \/ \E w \in 1..MaxWorkers : ReminderTrackLoad(w)
    \/ \E w \in 1..MaxWorkers : ReminderTrack(w)
    \/ \E w \in 1..MaxWorkers, out \in DumpKinds : ReminderTrackDump(w, out)
    \/ \E w \in 1..MaxWorkers : ReminderSave(w)
    \/ \E w \in 1..MaxWorkers, out \in DumpKinds : ReminderSaveDump(w, out)
    \/ \E w \in 1..MaxWorkers, accepted \in BOOLEAN : ReminderSchedule(w, accepted)
    \/ \E id \in Ids \cup {UnknownId}, status \in {"interested", "not_interested"} :
          ClickLoad(id, status)
    \/ ClickSave
    \/ \E out \in DumpKinds : ClickSaveDump(out)
    \/ ClickTrackLoad
    \/ ClickTrackFind
    \/ ClickTrackSave
    \/ \E out \in DumpKinds : ClickTrackDump(out)

Spec == Init /\ [][Next]_vars

\* One campaign over a seeded store with an empty log, every send accepted
\* by SMTP, no click, and no two handlers running at a time (a reminder is
\* due an interval after the send that scheduled it): the reminder chains
\* left to themselves.
InitChain ==
    /\ Init
    /\ contactsFile.kind = "ok"
    /\ trackingFile.kind = "ok"

NextChain ==
    \/ CampaignLoad(1, 1, MaxOps)
    \/ CampaignSend(TRUE)
    \/ CampaignTrack
    \/ \E out \in DumpKinds : CampaignTrackDump(out)
    \/ \E accepted \in BOOLEAN : CampaignSchedule(accepted)
    \/ CampaignSave
    \/ \E out \in DumpKinds : CampaignSaveDump(out)
    \/ \E k \in JobKeys : TimerFire(k, 1, MaxOps)
    \/ \E w \in 1..MaxWorkers : ReminderStart(w)
    \/ \E w \in 1..MaxWorkers : ReminderCapSave(w)
    \/ \E w \in 1..MaxWorkers, out \in DumpKinds : ReminderCapDump(w, out)
    \/ \E w \in 1..MaxWorkers : ReminderSend(w, "sent")
    \/ \E w \in 1..MaxWorkers : ReminderTrackLoad(w)
    \/ \E w \in 1..MaxWorkers : ReminderTrack(w)
    \/ \E w \in 1..MaxWorkers, out \in DumpKinds : ReminderTrackDump(w, out)
    \/ \E w \in 1..MaxWorkers : ReminderSave(w)
    \/ \E w \in 1..MaxWorkers, out \in DumpKinds : ReminderSaveDump(w, out)
    \/ \E w \in 1..MaxWorkers, accepted \in BOOLEAN : ReminderSchedule(w, accepted)

SpecChain == InitChain /\ [][NextChain]_vars

\* Every handler, over a seeded store with an empty log: both files are in
\* order before the first run.
SpecSeeded == InitChain /\ [][Next]_vars

\* Campaign runs and reminder callbacks that overlap freely, over a seeded
\* store with an empty log, every send accepted by SMTP and no click.
NextSent ==
    \/ CampaignLoad(MaxCampaigns, MaxRunning, MaxOpsSent)
    \/ CampaignSend(TRUE)
    \/ CampaignTrack
    \/ \E out \in DumpKinds : CampaignTrackDump(out)
    \/ \E accepted \in BOOLEAN : CampaignSchedule(accepted)
    \/ CampaignSave
    \/ \E out \in DumpKinds : CampaignSaveDump(out)
    \/ \E k \in JobKeys : TimerFire(k, MaxRunning, MaxOpsSent)
    \/ \E w \in 1..MaxWorkers : ReminderStart(w)
    \/ \E w \in 1..MaxWorkers : ReminderSkip(w)
    \/ \E w \in 1..MaxWorkers : ReminderCapSave(w)
    \/ \E w \in 1..MaxWorkers, out \in DumpKinds : ReminderCapDump(w, out)
    \/ \E w \in 1..MaxWorkers : ReminderSend(w, "sent")
    \/ \E w \in 1..MaxWorkers : ReminderTrackLoad(w)
    \/ \E w \in 1..MaxWorkers : ReminderTrack(w)
    \/ \E w \in 1..MaxWorkers, out \in DumpKinds : ReminderTrackDump(w, out)
    \/ \E w \in 1..MaxWorkers : ReminderSave(w)
    \/ \E w \in 1..MaxWorkers, out \in DumpKinds : ReminderSaveDump(w, out)
    \/ \E w \in 1..MaxWorkers, accepted \in BOOLEAN : ReminderSchedule(w, accepted)

SpecSent == InitChain /\ [][NextSent]_vars

\* ------------------------------------------------------------ the claims
\* whether a contacts file holds a contact with the id, and that contact
Holds(f, id)  == \E i \in 1..Len(Content(f)) : Content(f)[i].id = id
Stored(f, id) == Content(f)[CHOOSE i \in 1..Len(Content(f)) : Content(f)[i].id = id]

\* the contact has left pending in the file
Resolved(f, id) == Holds(f, id) /\ Stored(f, id).status # "pending"

\* the reminder count a reader of the file sees for the contact
CountIn(f, id) ==
    IF Stored(f, id).reminder_count = NoCount THEN 0 ELSE Stored(f, id).reminder_count

IsPrefix(a, b) == Len(a) <= Len(b) /\ SubSeq(b, 1, Len(a)) = a

\* the persisted collection and log: what was last written whole into the
\* file (a file that is open for writing has no content for the moment)
LastContacts == File("ok", dumped.contacts, FALSE)
LastLog      == dumped.tracking

\* no job of the contact is pending and no callback for it is running
ChainAtRest(c) ==
    /\ camp.pc = "idle"
    /\ campaigns = 1
    /\ \A n \in Ordinals : jobs[<<c, n>>] = 0
    /\ \A w \in 1..MaxWorkers : workers[w].id # c

\* C1 (as claimed): a contact the campaign has emailed, whose sends all
\* succeed and who never clicks, gets its reminders and then ends
\* not_interested with no job left: once MAX_REMINDERS reminders have gone
\* out to it and its chain has come to rest (no job pending, no callback
\* running), its status is not_interested.  Under SpecChain the campaign
\* emails every contact.
C1_ChainEndsNotInterested ==
    \A c \in Ids :
        (ChainAtRest(c) /\ outbox[c] >= MAX_REMINDERS)
           => Stored(contactsFile, c).status = "not_interested"

\* C2 (as claimed): once a contact's persisted status has left pending, it
\* stays so, no reminder is handed to SMTP for the contact and no job is
\* added for it, in every step of every interleaving.
C2_ResolvedStaysResolved ==
    [][\A c \in Ids :
         Resolved(LastContacts, c) =>
            /\ ~(Holds(LastContacts', c) /\ Stored(LastContacts', c).status = "pending")
            /\ outbox'[c] = outbox[c]
            /\ \A n \in Ordinals : jobs'[<<c, n>>] <= jobs[<<c, n>>]]_vars

\* C3: in every reachable state every contact of the file has a
\* reminder_count of at most MAX_REMINDERS.
C3_CountWithinCap ==
    /\ \A i \in 1..Len(Content(contactsFile)) :
          Content(contactsFile)[i].reminder_count <= MAX_REMINDERS
    /\ \A i \in 1..Len(dumped.contacts) :
          dumped.contacts[i].reminder_count <= MAX_REMINDERS

\* a contact stands at the cap after two reminders went out to it
C3_Witness ==
    \E c \in Ids :
        /\ Holds(contactsFile, c)
        /\ Stored(contactsFile, c).reminder_count = MAX_REMINDERS
        /\ outbox[c] >= 2

\* the step in which send_emails_to_all saves the contacts and returns
CampaignFinishes == camp.pc = "savew" /\ camp'.pc = "idle"

\* the step in which send_email writes the log for the current contact
CampaignLogs == camp.pc = "trackw" /\ camp'.pc = "mark"

\* the step in which the run has updated the current contact and scheduled
\* its first reminder
CampaignMarks == camp.pc = "mark" /\ camp'.pc \in {"send", "save"}

\* the file holds the list, or the text was laid over another handler's and
\* the file is left unparsable
WrittenOrSpoilt(before, after, data) ==
    \/ after.kind = "ok" /\ after.data = data
    \/ before.kind # "empty" /\ after.kind \in {"corrupt", "undecodable"}

EmailSentCount(log, c) ==
    Cardinality({i \in 1..Len(log) : log[i] = EmailSentEvent(c)})

\* C4 (as claimed): when a campaign run finishes, every contact then pending
\* in the file has reminder_count 0 and exactly one email_sent event in the
\* tracking log.
C4_PendingAfterCampaign ==
    [][CampaignFinishes =>
         \A c \in Ids :
            (Holds(contactsFile', c) /\ Stored(contactsFile', c).status = "pending")
              => /\ CountIn(contactsFile', c) = 0
                 /\ EmailSentCount(Content(trackingFile'), c) = 1]_vars

\* C4 (amended): a contact the run has sent the initial email to stays
\* pending, is marked sent and keeps the reminder_count it was loaded with
\* (0 when it had none), every other contact of the run is left as it is,
\* and the run writes the log it has just loaded with exactly one
\* email_sent event for the contact appended; when the run finishes, it
\* writes exactly these contacts.  What is written is what the file then
\* holds, unless another handler has written the file since the run opened
\* it, when the file may be left unparsable.
C4_CampaignKeepsCount ==
    [][/\ CampaignLogs =>
            LET old == camp.contacts[camp.pending[camp.i]]
                log == Append(camp.tracking, EmailSentEvent(old.id))
            IN  /\ WrittenOrSpoilt(trackingFile, trackingFile', log)
                /\ camp'.contacts = camp.contacts
                /\ contactsFile' = contactsFile
       /\ CampaignMarks =>
            LET idx == camp.pending[camp.i]
                old == camp.contacts[idx]
                new == camp'.contacts[idx]
            IN  /\ new.status = "pending"
                /\ new.sent_at
                /\ new.updated_at
                /\ new.reminder_count =
                     (IF old.reminder_count = NoCount THEN 0 ELSE old.reminder_count)
                /\ \A j \in 1..Len(camp.contacts) :
                      j # idx => camp'.contacts[j] = camp.contacts[j]
                /\ UNCHANGED <<contactsFile, trackingFile>>
       /\ CampaignFinishes =>
            /\ WrittenOrSpoilt(contactsFile, contactsFile', camp.contacts)
            /\ trackingFile' = trackingFile]_vars

\* a finished run has left a contact pending that carries reminders
C4_Witness ==
    /\ camp.pc = "idle"
    /\ campaigns >= 1
    /\ \E c \in Ids :
          /\ Holds(contactsFile, c)
          /\ Stored(contactsFile, c).status = "pending"
          /\ Stored(contactsFile, c).sent_at
          /\ Stored(contactsFile, c).reminder_count = MAX_REMINDERS - 1
          /\ EmailSentCount(Content(trackingFile), c) = 1

\* C5 (as claimed): a contact's persisted reminder_count never decreases
\* from one state to the next.
C5_CountNeverDecreases ==
    [][\A c \in Ids :
         (Holds(LastContacts, c) /\ Holds(LastContacts', c))
            => CountIn(LastContacts', c) >= CountIn(LastContacts, c)]_vars

\* C6 (as claimed): no load of a store file raises: no JSONDecodeError and
\* no UnicodeDecodeError ever leaves a campaign run, a reminder callback or
\* a response request.
C6_LoadNeverRaises ==
    \A e \in raised : e[2] \notin {"JSONDecodeError", "UnicodeDecodeError"}

\* the step in which the campaign's send to the current contact fails
CampaignSendFails == camp.pc = "send" /\ camp' # camp /\ camp'.pc # "track"

\* the step in which a callback's reminder send fails
ReminderSendFails(w) == workers[w].pc = "send" /\ workers'[w].pc = "idle"

\* C7: a failed send changes nothing that is stored: the two files, the
\* jobs and the contacts held by the campaign are as before and nothing is
\* raised; the campaign moves to its next contact (or to its save after the
\* last one), and the callback ends without a new job.  Of the mail only
\* the reminder of this callback may have gone out (its SMTP session failed
\* after the server had taken the message).
C7_FailedSendNoEffect ==
    [][/\ CampaignSendFails =>
            /\ UNCHANGED <<contactsFile, trackingFile, jobs, raised>>
            /\ camp'.contacts = camp.contacts
            /\ camp'.pending = camp.pending
            /\ IF camp.i < Len(camp.pending)
               THEN camp'.pc = "send" /\ camp'.i = camp.i + 1
               ELSE camp'.pc = "save"
       /\ \A w \in 1..MaxWorkers :
            ReminderSendFails(w) =>
               /\ UNCHANGED <<contactsFile, trackingFile, jobs, raised, dumped>>
               /\ \A c \in Ids :
                     IF c = workers[w].id
                     THEN outbox'[c] \in {outbox[c], outbox[c] + 1}
                     ELSE outbox'[c] = outbox[c]
               /\ workers'[w] = IdleWorker]_vars

\* the campaign is past a contact it could not send to and one it has sent
\* to; the job of the latter has fired on the pending contact and its
\* callback has ended with no reminder gone out, nothing saved, no job left
C7_Witness ==
    /\ camp.pc = "save"
    /\ campaigns = 1
    /\ clicks = 0
    /\ fires = 1
    /\ \E i, j \in 1..Len(camp.pending) :
          /\ ~camp.contacts[camp.pending[i]].sent_at
          /\ camp.contacts[camp.pending[j]].sent_at
    /\ jobs = NoJobs
    /\ \A w \in 1..MaxWorkers : workers[w].pc = "idle"
    /\ \A c \in Ids : outbox[c] = 0
    /\ Content(contactsFile) \in SeedStores
    /\ \A i \in 1..Len(Content(contactsFile)) :
          ~AtCap(Content(contactsFile)[i])
    /\ raised = {}

\* the contact is missing from the file or has left pending
Gone(f, id) == ~Holds(f, id) \/ Stored(f, id).status # "pending"

\* C8: a callback fired for an id that is missing from the file it loads or
\* no longer pending in it does nothing: it only prints and returns (or ends
\* at once with the error of its load, when the file cannot be read); the
\* two files are unchanged, no email goes out and no job is added, each time
\* it is fired.
C8_ResolvedFireNoOp ==
    [][\A w \in 1..MaxWorkers :
         /\ (workers[w].pc = "start" /\ workers'[w] # workers[w]
               /\ Gone(contactsFile, workers[w].id))
              => /\ \/ workers'[w].pc = "skip"
                    \/ /\ contactsFile.kind \notin {"ok", "missing"}
                       /\ workers'[w] = IdleWorker
                 /\ UNCHANGED <<contactsFile, trackingFile, outbox, jobs, dumped>>
         /\ (workers[w].pc = "skip" /\ workers'[w] # workers[w])
              => /\ workers'[w] = IdleWorker
                 /\ UNCHANGED <<contactsFile, trackingFile, outbox, jobs, dumped>>]_vars

\* one callback has found its contact resolved, another its id missing
C8_Witness ==
    \E w, v \in 1..MaxWorkers :
        /\ workers[w].pc = "skip"
        /\ workers[w].id \in Ids
        /\ Resolved(contactsFile, workers[w].id)
        /\ workers[v].pc = "skip"
        /\ workers[v].id = UnknownId

\* new is old with the status of the contact with the id set, nothing else
\* but its updated_at changed
StatusSet(old, new, id, status) ==
    /\ Len(new) = Len(old)
    /\ \A i \in 1..Len(old) :
          IF old[i].id = id
          THEN new[i] = [old[i] EXCEPT !.status = status, !.updated_at = TRUE]
          ELSE new[i] = old[i]

\* C9 (as claimed): a click on a contact of the collection leaves the
\* contacts file holding the persisted collection with that contact's status
\* set and nothing else changed (for an id that is not there: with nothing
\* changed), and the request ends with one event, with its action and id,
\* appended to the persisted log; only for an id that is not in the
\* collection it ends without an event.
C9_ClickSetsStatus ==
    [][/\ (click.pc = "savew" /\ click'.pc = "track") =>
            StatusSet(dumped.contacts, Content(contactsFile'), click.id, click.status)
       /\ (click.pc \in {"track", "find"} /\ click'.pc = "idle") =>
            ~Holds(LastContacts, click.id)
       /\ (click.pc = "logw" /\ click'.pc = "idle") =>
            Content(trackingFile') =
               Append(LastLog, ResponseEvent(click.id, click.status))]_vars

\* C10 (as claimed): in every step the persisted tracking log of before is
\* a prefix of the persisted tracking log of after.
C10_LogAppendOnly ==
    [][IsPrefix(LastLog, LastLog')]_vars

\* C11 (as claimed): over the whole execution no more than MAX_REMINDERS
\* reminder emails are handed to SMTP for any one contact.
C11_SentWithinCap ==
    \A c \in Ids : outbox[c] <= MAX_REMINDERS

====
